---- MODULE Spec2Model ----
(***************************************************************************)
(* scrappy-ddns: a Flask service that authenticates DDNS pings, detects a  *)
(* changed client IP and sends a push notification before it records the   *)
(* new IP.  The repository holds two variants of the service:              *)
(*   "scrappyddns"  : src/scrappyddns.py  (Pushover, temp file + rename)   *)
(*   "scrappy-ddns" : src/scrappy-ddns.py (NotifyMyAndroid, open(..,'w'))  *)
(* Text is a sequence of one-character strings.                            *)
(***************************************************************************)
EXTENDS Integers, Sequences, FiniteSets, TLC

\* ------------------------------------------------------------------ bounds
MaxPings == 2      \* requests handled in one behaviour (one slot per request)
BurstPings == 3    \* requests of a burst: all for one token, at one instant
MaxTime  == 15     \* the clock stops advancing here
TickSecs == 5      \* granularity of the modelled clock, in seconds
MaxProxies == 2    \* largest PROXY_COUNT of the configuration

\* --------------------------------------------------------- program constants
DebounceSecs == 10 \* cutoff = time.time() - 10

Variants == {"scrappyddns", "scrappy-ddns"}
Pings == 1..MaxPings
Slots == 1..BurstPings

\* ----------------------------------------------------------------- inputs
TokA == <<"a">>
TokB == <<"b">>
UrlTokens == {TokA, TokB}          \* the <token> part of the request URL
IP1 == <<"7">>
IP2 == <<"8", "8">>
IPs == {IP1, IP2}                  \* client addresses (different lengths)
IP3 == <<"9">>

\* PROXY_COUNT of the configuration.
ProxyCounts == 0..MaxProxies

\* Values of the X-Forwarded-For header; the empty one stands for a request
\* without the header as well (request.headers.get(name, '')).
NoHeader == << >>
XffHeaders ==
    { NoHeader,
      <<" ", ",">>,
      IP1,
      IP2 \o <<",", " ">> \o IP1,
      IP1 \o <<",">> \o IP2,
      IP3 \o <<",", " ">> \o IP2 \o <<",">> \o IP1 }

\* A file on disk: whether it exists (os.path.isfile) and, for the token list
\* file, its lines.
NoFile == [exists |-> FALSE, lines |-> << >>]
File(lines) == [exists |-> TRUE, lines |-> lines]
\* Contents the token list file may have.
TokenFiles ==
    { NoFile,
      File(<< <<"#", "a", ":", "h">>, <<"a", "h">>, << >> >>),
      File(<< <<"a", ":", "h">> >>),
      File(<< <<"#", "c">>, <<" ", "a", ":", "h", " ">>,
              <<"b", ":", "w", ":", "x">> >>) }

\* Responses of the push provider: an HTTP status and the kind of body.
\*   "success": {"status":1,...} or <success/>; "error": a well-formed error
\*   document; "garbage": a body that does not parse.
Responses ==
    { [status |-> 200, body |-> "success"],
      [status |-> 200, body |-> "error"],
      [status |-> 200, body |-> "garbage"],
      [status |-> 400, body |-> "error"],
      [status |-> 400, body |-> "success"],
      [status |-> 500, body |-> "garbage"] }
TransportError == [status |-> 0, body |-> "none"]   \* refused, reset, TLS failure

\* ------------------------------------------------------------ text helpers
IsSpace(c) == c = " "

RECURSIVE LStrip(_)
LStrip(s) == IF s # << >> /\ IsSpace(Head(s)) THEN LStrip(Tail(s)) ELSE s

RECURSIVE RStrip(_)
RStrip(s) ==
    IF s # << >> /\ IsSpace(s[Len(s)]) THEN RStrip(SubSeq(s, 1, Len(s) - 1)) ELSE s

\* str.strip()
Strip(s) == RStrip(LStrip(s))

\* str.split(':'): the segments between the separators, empty ones kept.
RECURSIVE SplitAcc(_, _, _)
SplitAcc(s, sep, cur) ==
    IF s = << >> THEN << cur >>
    ELSE IF Head(s) = sep THEN << cur >> \o SplitAcc(Tail(s), sep, << >>)
    ELSE SplitAcc(Tail(s), sep, Append(cur, Head(s)))

Split(s, sep) == SplitAcc(s, sep, << >>)

\* re.match(r'[^#].*:.*', line): a first character other than '#', then a
\* colon somewhere after it.
TokenLineMatch(line) ==
    /\ Len(line) >= 1
    /\ line[1] # "#"
    /\ \E i \in 2..Len(line) : line[i] = ":"

\* ---------------------------------------------------------- Token Registry
\* The dict comprehension over the stripped, matching lines: a later line
\* with the same token replaces an earlier one.
RECURSIVE TokenDict(_)
TokenDict(lines) ==
    IF lines = << >> THEN << >>
    ELSE LET rest == TokenDict(SubSeq(lines, 1, Len(lines) - 1))
             line == lines[Len(lines)]
             elem == Split(Strip(line), ":")
         IN IF TokenLineMatch(line)
            THEN [k \in (DOMAIN rest) \cup {elem[1]} |->
                      IF k = elem[1] THEN elem[2] ELSE rest[k]]
            ELSE rest

\* A load_tokens that raises for a missing file only and returns the empty
\* dict of a file without entries.
load_tokens_empty_ok(file) ==
    IF ~file.exists THEN [raised |-> TRUE, names |-> << >>]
    ELSE [raised |-> FALSE, names |-> TokenDict(file.lines)]

\* load_tokens: token_names stays None when the file is missing; "if not
\* token_names" raises ScrappyException for None and for the empty dict.
load_tokens(file) ==
    IF ~file.exists THEN [raised |-> TRUE, names |-> << >>]
    ELSE LET token_names == TokenDict(file.lines)
         IN [raised |-> DOMAIN token_names = {}, names |-> token_names]

\* A hello that keeps the registry it loaded from the first token list.
token_names_cached(file) == load_tokens(File(<< <<"a", ":", "h">> >>))

\* hello, line 157: token_names = load_tokens(token_list_filename), on
\* every request.
token_names(file) == load_tokens(file)

\* ------------------------------------------------------- Client IP Resolver
\* An optional query parameter: request.args.get(name, default).
NoParam == [given |-> FALSE, value |-> << >>]
Param(v) == [given |-> TRUE, value |-> v]
IpParams == {NoParam} \cup {Param(v) : v \in IPs}

\* The characters [\s,] of the pattern.
IsSep(c) == IsSpace(c) \/ c = ","

\* The length of the longest match of [\s,]* at offset i of s.
RECURSIVE SepRun(_, _)
SepRun(s, i) == IF i < Len(s) /\ IsSep(s[i + 1]) THEN 1 + SepRun(s, i + 1) ELSE 0

\* re.split(r'[\s,]*', s) from offset pos on, the current piece starting at
\* offset start.  The pattern matches the empty string: an interpreter that
\* splits on empty matches (Python 3.7 and later) splits at every offset, one
\* that skips them (before 3.7) splits at the runs of separators only.  After
\* an empty match the next match may not be empty at the same offset.
RECURSIVE ReSplitFrom(_, _, _, _, _)
ReSplitFrom(s, start, pos, noEmpty, onEmpty) ==
    IF pos > Len(s) THEN << SubSeq(s, start + 1, Len(s)) >>
    ELSE LET run == SepRun(s, pos)
         IN IF run > 0
            THEN << SubSeq(s, start + 1, pos) >>
                     \o ReSplitFrom(s, pos + run, pos + run, FALSE, onEmpty)
            ELSE IF onEmpty /\ ~noEmpty
            THEN << SubSeq(s, start + 1, pos) >>
                     \o ReSplitFrom(s, pos, pos, TRUE, onEmpty)
            ELSE ReSplitFrom(s, start, pos + 1, FALSE, onEmpty)

re_split(s, onEmpty) == ReSplitFrom(s, 0, 0, FALSE, onEmpty)

\* seq[::-1]
Reverse(seq) == [i \in 1..Len(seq) |-> seq[Len(seq) + 1 - i]]

NonEmpty(hop) == hop # << >>

\* find_client_ip: the address it returns and whether it logged a warning.
find_client_ip(remote_addr, header, proxy_count, onEmpty) ==
    LET req_hops == Reverse(SelectSeq(re_split(header, onEmpty), NonEmpty))
    IN IF proxy_count > 0
       THEN IF req_hops # << >>
            THEN IF Len(req_hops) >= proxy_count
                 THEN [client_ip |-> req_hops[proxy_count], warned |-> FALSE]
                 ELSE [client_ip |-> remote_addr, warned |-> TRUE]
            ELSE [client_ip |-> remote_addr, warned |-> TRUE]
       ELSE [client_ip |-> remote_addr, warned |-> FALSE]

\* A lookup that takes the default although the parameter is given.
ClientIpIgnoresParam(ip_address, default) == default

\* request.args.get('ip_address', default)
ClientIp(ip_address, default) ==
    IF ip_address.given THEN ip_address.value ELSE default

\* ------------------------------------------------------------- State Store
\* One "<token>.ip" file per token: its content and its modification time.
NoRecord == [exists |-> FALSE, content |-> << >>, mtime |-> 0]
Record(content, mtime) == [exists |-> TRUE, content |-> content, mtime |-> mtime]

\* A write of data at offset 0 of a file that holds content: the bytes past
\* the data stay as they are.
Overlay(content, data) ==
    IF Len(data) >= Len(content) THEN data
    ELSE data \o SubSeq(content, Len(data) + 1, Len(content))

\* cutoff = time.time() - 10
Cutoff(time) == time - DebounceSecs

\* The comparison of the modification time with the cutoff, the wrong way
\* round.
NotTooRecentInverted(mtime, cutoff) == mtime > cutoff

\* A comparison that lets a ping pass exactly 10 seconds after the
\* modification.
NotTooRecentOrEqual(mtime, cutoff) == mtime <= cutoff

\* os.stat(ip_filename).st_mtime < cutoff: not modified too recently.
NotTooRecent(mtime, cutoff) == mtime < cutoff

\* A comparison that takes every ping for a change.
IpChangedAlways(old_ip, client_ip) == TRUE

\* A comparison that takes no ping for a change.
IpChangedNever(old_ip, client_ip) == FALSE

\* old_ip != client_ip
IpChanged(old_ip, client_ip) == old_ip # client_ip

\* ---------------------------------------------------- Notification Dispatcher
\* What push_notify makes of the provider's answer: "ok" (it returns),
\* "ScrappyException", or "ParseError" (an exception it does not classify).
PushResult(variant, resp) ==
    IF variant = "scrappyddns"
    THEN IF resp = TransportError THEN "ScrappyException"
         ELSE IF resp.status = 200 \/ resp.status \in 400..499
         THEN IF resp.body = "garbage" THEN "ScrappyException"
              ELSE IF resp.status = 200 /\ resp.body = "success" THEN "ok"
              ELSE "ScrappyException"
         ELSE "ScrappyException"
    ELSE IF resp = TransportError \/ resp.status >= 400 THEN "ScrappyException"
         ELSE IF resp.body = "garbage" THEN "ParseError"
         ELSE IF resp.body = "success" THEN "ok"
         ELSE "ScrappyException"

\* ------------------------------------------------------- Update Controller
\* hello's "except Exception": every exception raised inside the try block,
\* werkzeug's NotFound raised by abort(404) included, ends in abort(500).
hello_except(exc) == 500

\* ------------------------------------------------------------------- state
VARIABLES
    variant,     \* which of the two scripts is deployed
    pushKeys,    \* whether the provider credentials are configured
    tokenFile,   \* the token list file
    now,         \* time.time()
    store,       \* token -> its "<token>.ip" file
    ping,        \* request -> the state of its handler
    store0,      \* the records as they were before the first request
    proxyCount,  \* PROXY_COUNT of the configuration
    splitsOnEmpty, \* whether the interpreter's re.split splits on empty matches
    lookup       \* a call of find_client_ip on its own

vars == <<variant, pushKeys, tokenFile, now, store, ping, store0,
          proxyCount, splitsOnEmpty, lookup>>

\* A request that has not arrived yet.  The fields after outcome are the
\* request's history, kept for the properties.
Idle ==
    [pc |-> "idle", token |-> << >>, name |-> << >>, ip |-> << >>,
     cutoff |-> 0, old_ip |-> << >>, tmp_mtime |-> 0,
     status |-> 0, body |-> "", outcome |-> "none",
     t_arr |-> 0,            \* when it arrived
     soon_after |-> FALSE,   \* less than 10 s after another ping for the token
     after_failed |-> FALSE, \* a ping for the token and the IP had ended Failed
     src |-> "none",         \* the token file it found: absent, empty, tokens
     auth |-> "none",        \* raised, unknown, known
     saw_record |-> "none",  \* what os.path.isfile answered
     in_window |-> "none",   \* clock read no more than 10 s after the mtime
     after_commit |-> "none", \* ... no more than 10 s after a commit for the token
     cmp |-> "none",         \* the record it read: equal to its IP or not
     calls |-> 0,            \* calls of push_notify
     net |-> 0,              \* requests sent to the provider
     pushed |-> "none",      \* how push_notify ended: ok, fail
     exc |-> "none",         \* the exception push_notify raised
     pushed_ip |-> << >>,    \* the IP of the notification
     push_seq |-> 0,         \* its place among the notifications delivered
     mods |-> 0,             \* modifications of the record
     commits |-> 0,          \* completed writes of the record
     t_commit |-> 0]         \* when its write of the record was complete

\* No call of find_client_ip on its own.
NoLookup ==
    [pc |-> "none", ip_address |-> NoParam, remote_addr |-> << >>,
     header |-> << >>, client_ip |-> << >>, warned |-> FALSE]

InitMtimes == {0 - 3 * TickSecs, 0}
InitRecords == {NoRecord} \cup {Record(IP1, m) : m \in InitMtimes}
InitStores == {[t \in UrlTokens |-> IF t = TokA THEN r ELSE NoRecord] : r \in InitRecords}

Init ==
    /\ variant \in Variants
    /\ pushKeys \in BOOLEAN
    /\ tokenFile \in TokenFiles
    /\ now = 0
    /\ store \in InitStores
    /\ store0 = store
    /\ ping = [p \in Slots |-> Idle]
    /\ proxyCount = 0          \* app.config.get('PROXY_COUNT', 0)
    /\ splitsOnEmpty = FALSE   \* re.split is not reached without proxies
    /\ lookup = NoLookup

Set(p, r) == ping' = [ping EXCEPT ![p] = r]

\* The response leaves the handler; its locals are gone.  return 'OK' is
\* the 200 response, abort(500) the error page.
Done(r, status, outcome) ==
    [r EXCEPT !.pc = "done", !.status = status, !.outcome = outcome,
              !.body = IF status = 200 THEN "OK" ELSE "error page",
              !.name = << >>, !.cutoff = 0, !.old_ip = << >>, !.tmp_mtime = 0]

\* What the token list file holds, by the format of its lines alone.
IsEntryLine(line) == line # << >> /\ line[1] # "#" /\ \E i \in 1..Len(line) : line[i] = ":"
FileKind(file) ==
    IF ~file.exists THEN "absent"
    ELSE IF \E i \in 1..Len(file.lines) : IsEntryLine(file.lines[i]) THEN "tokens"
    ELSE "empty"

\* hello, lines 155-162: load the tokens, look the token up, resolve the IP.
Arrive(p, token, ip_address, remote_addr, header) ==
    /\ ping[p].pc = "idle"
    /\ \A q \in Slots : q < p => ping[q].pc # "idle"
    /\ LET loaded == token_names(tokenFile)
           found == IF variant = "scrappyddns"
                    THEN find_client_ip(remote_addr, header, proxyCount,
                                        splitsOnEmpty).client_ip
                    ELSE remote_addr
           client_ip == ClientIp(ip_address, found)
           r == [ping[p] EXCEPT
                    !.token = token, !.t_arr = now, !.src = FileKind(tokenFile),
                    !.soon_after = \E q \in Slots :
                        /\ ping[q].pc # "idle"
                        /\ ping[q].token = token
                        /\ now - ping[q].t_arr < DebounceSecs]
       IN IF loaded.raised
          THEN Set(p, Done([r EXCEPT !.auth = "raised"],
                           hello_except("ScrappyException"), "Failed"))
          ELSE IF token \in DOMAIN loaded.names
          THEN Set(p, [r EXCEPT !.pc = "isfile", !.auth = "known",
                                !.name = loaded.names[token],
                                !.ip = client_ip,
                                !.after_failed = \E q \in Slots :
                                    /\ ping[q].pc = "done"
                                    /\ ping[q].pushed = "fail"
                                    /\ ping[q].token = token
                                    /\ ping[q].ip = client_ip])
          ELSE Set(p, Done([r EXCEPT !.auth = "unknown"],
                           hello_except("NotFound"), "Unauthorized"))
    /\ UNCHANGED <<proxyCount, splitsOnEmpty, lookup, variant, pushKeys, tokenFile, now, store, store0>>

\* os.path.isfile(ip_filename)
IsFile(p) ==
    /\ ping[p].pc = "isfile"
    /\ IF store[ping[p].token].exists
       THEN Set(p, [ping[p] EXCEPT !.pc = "cutoff", !.saw_record = "yes"])
       ELSE Set(p, [ping[p] EXCEPT !.pc = "push", !.saw_record = "no"])
    /\ UNCHANGED <<proxyCount, splitsOnEmpty, lookup, variant, pushKeys, tokenFile, now, store, store0>>

\* cutoff = time.time() - 10
ReadClock(p) ==
    /\ ping[p].pc = "cutoff"
    /\ Set(p, [ping[p] EXCEPT !.pc = "stat", !.cutoff = Cutoff(now)])
    /\ UNCHANGED <<proxyCount, splitsOnEmpty, lookup, variant, pushKeys, tokenFile, now, store, store0>>

\* A debounce check that touches the record of a ping it ignores.
StatTouchesRecord(p) ==
    /\ ping[p].pc = "stat"
    /\ IF NotTooRecent(store[ping[p].token].mtime, ping[p].cutoff)
       THEN /\ Set(p, [ping[p] EXCEPT !.pc = "read", !.in_window = "no",
                                      !.after_commit = "no"])
            /\ UNCHANGED store
       ELSE /\ Set(p, Done([ping[p] EXCEPT !.in_window = "yes"], 200, "Ignored"))
            /\ store' = [store EXCEPT ![ping[p].token].mtime = now]
    /\ UNCHANGED <<proxyCount, splitsOnEmpty, lookup, variant, pushKeys, tokenFile, now, store0>>

\* if os.stat(ip_filename).st_mtime < cutoff
Stat(p) ==
    /\ ping[p].pc = "stat"
    /\ LET st_mtime == store[ping[p].token].mtime
           clock == ping[p].cutoff + DebounceSecs
           r == [ping[p] EXCEPT
                    !.in_window =
                        IF clock - st_mtime <= DebounceSecs THEN "yes" ELSE "no",
                    !.after_commit =
                        IF \E q \in Slots \ {p} :
                               /\ ping[q].token = ping[p].token
                               /\ ping[q].commits > 0
                               /\ clock - ping[q].t_commit <= DebounceSecs
                        THEN "yes" ELSE "no"]
       IN IF NotTooRecent(st_mtime, ping[p].cutoff)
          THEN Set(p, [r EXCEPT !.pc = "read"])
          ELSE Set(p, Done(r, 200, "Ignored"))
    /\ UNCHANGED <<proxyCount, splitsOnEmpty, lookup, variant, pushKeys, tokenFile, now, store, store0>>

\* old_ip = ip_file.read(); if old_ip != client_ip
Read(p) ==
    /\ ping[p].pc = "read"
    /\ LET content == store[ping[p].token].content
           r == [ping[p] EXCEPT !.old_ip = content,
                    !.cmp = IF content = ping[p].ip THEN "equal" ELSE "differ"]
       IN IF IpChanged(r.old_ip, r.ip)
          THEN Set(p, [r EXCEPT !.pc = "push"])
          ELSE Set(p, Done(r, 200, "Ignored"))
    /\ UNCHANGED <<proxyCount, splitsOnEmpty, lookup, variant, pushKeys, tokenFile, now, store, store0>>

\* An update_ip that writes the record before it calls push_notify.
PushStartWritesFirst(p) ==
    /\ ping[p].pc = "push"
    /\ store' = [store EXCEPT ![ping[p].token] = Record(ping[p].ip, now)]
    /\ LET r == [ping[p] EXCEPT !.calls = @ + 1, !.pushed_ip = ping[p].ip,
                                !.mods = @ + 1]
       IN IF pushKeys
          THEN Set(p, [r EXCEPT !.pc = "push_wait", !.net = @ + 1])
          ELSE Set(p, Done([r EXCEPT !.pushed = "fail"],
                           hello_except("ScrappyException"), "Failed"))
    /\ UNCHANGED <<proxyCount, splitsOnEmpty, lookup, variant, pushKeys, tokenFile, now, store0>>

\* A push_notify that sends the request without a look at the credentials.
PushStartSendsWithoutKeys(p) ==
    /\ ping[p].pc = "push"
    /\ Set(p, [ping[p] EXCEPT !.pc = "push_wait", !.calls = @ + 1,
                              !.pushed_ip = ping[p].ip, !.net = @ + 1])
    /\ UNCHANGED <<proxyCount, splitsOnEmpty, lookup, variant, pushKeys, tokenFile, now, store, store0>>

\* update_ip calls push_notify: the credentials are checked, then the request
\* with the message "<client_name> is at <client_ip>" is sent to the provider.
PushStart(p) ==
    /\ ping[p].pc = "push"
    /\ LET r == [ping[p] EXCEPT !.calls = @ + 1, !.pushed_ip = ping[p].ip]
       IN IF pushKeys
          THEN Set(p, [r EXCEPT !.pc = "push_wait", !.net = @ + 1])
          ELSE Set(p, Done([r EXCEPT !.pushed = "fail", !.exc = "ScrappyException"],
                           hello_except("ScrappyException"), "Failed"))
    /\ UNCHANGED <<proxyCount, splitsOnEmpty, lookup, variant, pushKeys, tokenFile, now, store, store0>>

\* A push_notify that goes on to the write whatever the provider said.
PushResponseFailureIgnored(p, resp) ==
    /\ ping[p].pc = "push_wait"
    /\ Set(p, [ping[p] EXCEPT !.pc = "commit", !.pushed =
                  IF PushResult(variant, resp) = "ok" THEN "ok" ELSE "fail"])
    /\ UNCHANGED <<proxyCount, splitsOnEmpty, lookup, variant, pushKeys, tokenFile, now, store, store0>>

\* A push_notify that tries again when the provider did not accept.
PushResponseRetry(p, resp) ==
    /\ ping[p].pc = "push_wait"
    /\ LET res == PushResult(variant, resp)
       IN IF res = "ok"
          THEN Set(p, [ping[p] EXCEPT !.pc = "commit", !.pushed = "ok"])
          ELSE IF ping[p].calls < 2
          THEN Set(p, [ping[p] EXCEPT !.pc = "push"])
          ELSE Set(p, Done([ping[p] EXCEPT !.pushed = "fail"],
                           hello_except(res), "Failed"))
    /\ UNCHANGED <<proxyCount, splitsOnEmpty, lookup, variant, pushKeys, tokenFile, now, store, store0>>

\* An update_ip that records the IP although push_notify raised.
PushResponseFailureCommits(p, resp) ==
    /\ ping[p].pc = "push_wait"
    /\ LET res == PushResult(variant, resp)
       IN IF res = "ok"
          THEN /\ Set(p, [ping[p] EXCEPT !.pc = "commit", !.pushed = "ok"])
               /\ UNCHANGED store
          ELSE /\ Set(p, Done([ping[p] EXCEPT !.pushed = "fail"],
                              hello_except(res), "Failed"))
               /\ store' = [store EXCEPT ![ping[p].token] = Record(ping[p].ip, now)]
    /\ UNCHANGED <<proxyCount, splitsOnEmpty, lookup, variant, pushKeys, tokenFile, now, store0>>

\* The provider answers, or the transport fails; push_notify returns or raises.
PushResponse(p, resp) ==
    /\ ping[p].pc = "push_wait"
    /\ LET res == PushResult(variant, resp)
       IN IF res = "ok"
          THEN Set(p, [ping[p] EXCEPT !.pc = "commit", !.pushed = "ok",
                          !.push_seq = 1 + Cardinality({q \in Slots :
                                                           ping[q].pushed = "ok"})])
          ELSE Set(p, Done([ping[p] EXCEPT !.pushed = "fail", !.exc = res],
                           hello_except(res), "Failed"))
    /\ UNCHANGED <<proxyCount, splitsOnEmpty, lookup, variant, pushKeys, tokenFile, now, store, store0>>

\* scrappyddns.py, lines 36-38: the IP is written to a temporary file of the
\* same directory, which gets its modification time here.
TmpWrite(p) ==
    /\ variant = "scrappyddns"
    /\ ping[p].pc = "commit"
    /\ Set(p, [ping[p] EXCEPT !.pc = "rename", !.tmp_mtime = now])
    /\ UNCHANGED <<proxyCount, splitsOnEmpty, lookup, variant, pushKeys, tokenFile, now, store, store0>>

\* An update_ip that writes the client's name where its IP belongs.
RenameWritesName(p) ==
    /\ variant = "scrappyddns"
    /\ ping[p].pc = "rename"
    /\ store' = [store EXCEPT ![ping[p].token] =
                     Record(ping[p].name, ping[p].tmp_mtime)]
    /\ Set(p, Done([ping[p] EXCEPT !.mods = @ + 1, !.commits = @ + 1,
                                   !.t_commit = now], 200, "OK"))
    /\ UNCHANGED <<proxyCount, splitsOnEmpty, lookup, variant, pushKeys, tokenFile, now, store0>>

\* scrappyddns.py, line 39: os.rename puts the temporary file, with its
\* modification time, in the record's place.
Rename(p) ==
    /\ variant = "scrappyddns"
    /\ ping[p].pc = "rename"
    /\ store' = [store EXCEPT ![ping[p].token] =
                     Record(ping[p].ip, ping[p].tmp_mtime)]
    /\ Set(p, Done([ping[p] EXCEPT !.mods = @ + 1, !.commits = @ + 1,
                                   !.t_commit = now], 200, "OK"))
    /\ UNCHANGED <<proxyCount, splitsOnEmpty, lookup, variant, pushKeys, tokenFile, now, store0>>

\* scrappy-ddns.py, line 33: open(ip_filename, 'w') creates or truncates the
\* record itself.
OpenW(p) ==
    /\ variant = "scrappy-ddns"
    /\ ping[p].pc = "commit"
    /\ store' = [store EXCEPT ![ping[p].token] = Record(<< >>, now)]
    /\ Set(p, [ping[p] EXCEPT !.pc = "write", !.mods = @ + 1])
    /\ UNCHANGED <<proxyCount, splitsOnEmpty, lookup, variant, pushKeys, tokenFile, now, store0>>

\* scrappy-ddns.py, line 34: the buffered write reaches the file, at offset 0,
\* when the with block closes it.
WriteClose(p) ==
    /\ variant = "scrappy-ddns"
    /\ ping[p].pc = "write"
    /\ store' = [store EXCEPT ![ping[p].token] =
                     Record(Overlay(@.content, ping[p].ip), now)]
    /\ Set(p, Done([ping[p] EXCEPT !.mods = @ + 1, !.commits = @ + 1,
                                   !.t_commit = now], 200, "OK"))
    /\ UNCHANGED <<proxyCount, splitsOnEmpty, lookup, variant, pushKeys, tokenFile, now, store0>>

\* Time passes, TickSecs at a time.  The two file operations of update_ip
\* are adjacent statements: no such time passes between them.
Tick ==
    /\ now + TickSecs <= MaxTime
    /\ \A p \in Slots : ping[p].pc \notin {"rename", "write"}
    /\ now' = now + TickSecs
    /\ UNCHANGED <<proxyCount, splitsOnEmpty, lookup, variant, pushKeys, tokenFile, store, ping, store0>>

\* The administrator replaces the token list file (while a request that
\* will read it is still to come).
EditTokenFile(f) ==
    /\ f # tokenFile
    /\ \E p \in Pings : ping[p].pc = "idle"
    /\ tokenFile' = f
    /\ UNCHANGED <<proxyCount, splitsOnEmpty, lookup, variant, pushKeys, now, store, ping, store0>>

\* The steps a handler takes by itself.
Local(p) ==
    \/ IsFile(p)
    \/ ReadClock(p)
    \/ Stat(p)
    \/ Read(p)
    \/ PushStart(p)
    \/ TmpWrite(p)
    \/ Rename(p)
    \/ OpenW(p)
    \/ WriteClose(p)

Next ==
    \/ \E p \in Pings, token \in UrlTokens, ip_address \in IpParams,
          remote_addr \in IPs, header \in XffHeaders :
           Arrive(p, token, ip_address, remote_addr, header)
    \/ \E p \in Pings : Local(p)
    \/ \E p \in Pings, resp \in Responses \cup {TransportError} : PushResponse(p, resp)
    \/ Tick
    \/ \E f \in TokenFiles : EditTokenFile(f)

Spec == Init /\ [][Next]_vars

\* A burst: requests for one token that all arrive at the same instant and
\* overlap as they please; the token list file stays as it is.
BurstInit ==
    /\ variant \in Variants
    /\ pushKeys \in BOOLEAN
    /\ tokenFile \in {f \in TokenFiles : FileKind(f) = "tokens"}
    /\ now = 0
    /\ store \in InitStores
    /\ store0 = store
    /\ ping = [p \in Slots |-> Idle]
    /\ proxyCount = 0
    /\ splitsOnEmpty = FALSE
    /\ lookup = NoLookup

BurstNext ==
    \/ \E p \in Slots, ip_address \in IpParams, remote_addr \in IPs :
           Arrive(p, TokA, ip_address, remote_addr, NoHeader)
    \/ \E p \in Slots : Local(p)
    \/ \E p \in Slots, resp \in Responses \cup {TransportError} : PushResponse(p, resp)

BurstSpec == BurstInit /\ [][BurstNext]_vars

\* find_client_ip on its own: every remote address, header, PROXY_COUNT and
\* interpreter.
ResolveInit ==
    /\ variant = "scrappyddns"
    /\ pushKeys = TRUE
    /\ tokenFile = NoFile
    /\ now = 0
    /\ store = [t \in UrlTokens |-> NoRecord]
    /\ store0 = store
    /\ ping = [p \in Slots |-> Idle]
    /\ proxyCount \in ProxyCounts
    /\ splitsOnEmpty \in BOOLEAN
    /\ \E remote_addr \in IPs, header \in XffHeaders :
           lookup = [NoLookup EXCEPT !.pc = "call", !.remote_addr = remote_addr,
                                     !.header = header]

\* The call returns.
Resolve ==
    /\ lookup.pc = "call"
    /\ LET res == find_client_ip(lookup.remote_addr, lookup.header,
                                 proxyCount, splitsOnEmpty)
       IN lookup' = [lookup EXCEPT !.pc = "return", !.client_ip = res.client_ip,
                                   !.warned = res.warned]
    /\ UNCHANGED <<variant, pushKeys, tokenFile, now, store, ping, store0,
                   proxyCount, splitsOnEmpty>>

ResolveNext == Resolve

ResolveSpec == ResolveInit /\ [][ResolveNext]_vars

\* One request to a service behind proxies: every configuration and
\* interpreter, every ip_address parameter (the empty one of "?ip_address="
\* included), remote address and header.
ProxyParams == IpParams \cup {Param(<< >>)}

ProxyInit ==
    /\ variant \in Variants
    /\ pushKeys \in BOOLEAN
    /\ tokenFile \in {f \in TokenFiles : FileKind(f) = "tokens"}
    /\ now = 0
    /\ store \in InitStores
    /\ store0 = store
    /\ ping = [p \in Slots |-> Idle]
    /\ proxyCount \in ProxyCounts
    /\ splitsOnEmpty \in BOOLEAN
    /\ \E ip_address \in ProxyParams, remote_addr \in IPs, header \in XffHeaders :
           lookup = [NoLookup EXCEPT !.pc = "request", !.ip_address = ip_address,
                                     !.remote_addr = remote_addr, !.header = header]

ProxyNext ==
    \/ Arrive(1, TokA, lookup.ip_address, lookup.remote_addr, lookup.header)
    \/ Local(1)
    \/ \E resp \in Responses \cup {TransportError} : PushResponse(1, resp)

ProxySpec == ProxyInit /\ [][ProxyNext]_vars

\* One authorized client that keeps pinging with the same new IP, IP2, one
\* ping at a time and PingInterval seconds apart.  Slot 1 is the ping under
\* way, slot 2 keeps the ping before it.  Times are kept relative to the
\* present: when PingInterval seconds pass, every time stamp moves back by as
\* much (anything older than PingInterval seconds counts as that old).
PingInterval == 3 * TickSecs

Earlier(t) == IF t - PingInterval < 0 - PingInterval THEN 0 - PingInterval
              ELSE t - PingInterval

ConvergeInit ==
    /\ variant \in Variants
    /\ pushKeys = TRUE
    /\ tokenFile \in {f \in TokenFiles : FileKind(f) = "tokens"}
    /\ now = 0
    /\ store \in InitStores
    /\ store0 = store
    /\ ping = [p \in Slots |-> Idle]
    /\ proxyCount = 0
    /\ splitsOnEmpty = FALSE
    /\ lookup = NoLookup

\* The client's next ping, with its IP as the remote address or as the
\* ip_address parameter.
ClientPing ==
    \E ip_address \in {NoParam, Param(IP2)} :
        Arrive(1, TokA, ip_address, IP2, NoHeader)

\* The ping is answered; PingInterval seconds pass before the next one.
Later ==
    /\ ping[1].pc = "done"
    /\ ping' = [ping EXCEPT
                   ![1] = Idle,
                   ![2] = [ping[1] EXCEPT !.t_arr = Earlier(@),
                                          !.t_commit = Earlier(@)]]
    /\ store' = [t \in UrlTokens |->
                    IF store[t].exists
                    THEN [store[t] EXCEPT !.mtime = Earlier(@)]
                    ELSE store[t]]
    /\ UNCHANGED <<proxyCount, splitsOnEmpty, lookup, variant, pushKeys, tokenFile, now, store0>>

ConvergeNext ==
    \/ ClientPing
    \/ Local(1)
    \/ \E resp \in Responses \cup {TransportError} : PushResponse(1, resp)
    \/ Later

\* The client never stops, the server runs the handler, and the provider,
\* asked again and again, at some time accepts.
ConvergeSpec ==
    /\ ConvergeInit
    /\ [][ConvergeNext]_vars
    /\ WF_vars(ClientPing)
    /\ WF_vars(Local(1))
    /\ WF_vars(Later)
    /\ SF_vars(PushResponse(1, [status |-> 200, body |-> "success"]))

\* The server runs every handler it has started; nothing obliges the
\* provider to answer.
FairSpec == Spec /\ \A p \in Pings : WF_vars(Local(p))

\* ------------------------------------------------------------- properties
Arrived == {p \in Slots : ping[p].pc # "idle"}
CommitPcs == {"commit", "rename", "write"}

\* C1: a ping whose push_notify failed (provider error, transport error or
\* missing credentials) has ended Failed with HTTP 500 and has not modified
\* the token's record at any step: the record is neither created nor changed
\* in content or modification time by that ping.
C1_FailedPushLeavesRecord ==
    \A p \in Slots :
        ping[p].pushed = "fail" =>
            /\ ping[p].pc = "done"
            /\ ping[p].outcome = "Failed"
            /\ ping[p].status = 500
            /\ ping[p].mods = 0
            /\ ping[p].commits = 0

\* C1 witness: a ping that found a record, called push_notify and saw it fail.
C1_Witness ==
    \E p \in Slots :
        /\ ping[p].pushed = "fail"
        /\ ping[p].saw_record = "yes"
        /\ ping[p].net = 1
        /\ ping[p].status = 500

\* C2: every step that creates or changes a token's record is a commit step
\* of a ping for that token whose push_notify has just succeeded for the IP
\* it writes; the rename puts exactly that IP in place (the in-place variant
\* first truncates and then writes that IP at offset 0).
C2_WritesFollowDispatch ==
    [][\A t \in UrlTokens :
          store'[t] # store[t] =>
              \E p \in Slots :
                  /\ ping[p].token = t
                  /\ ping[p].pc \in CommitPcs
                  /\ ping'[p].pc # ping[p].pc
                  /\ ping[p].pushed = "ok"
                  /\ ping[p].calls = 1
                  /\ ping[p].pushed_ip = ping[p].ip
                  /\ store'[t].exists
                  /\ IF variant = "scrappyddns"
                     THEN store'[t].content = ping[p].pushed_ip
                     ELSE store'[t].content \in
                              {<< >>, Overlay(store[t].content, ping[p].pushed_ip)}
                  /\ \A u \in UrlTokens \ {t} : store'[u] = store[u]]_vars

\* C2 witness: a record that differs from the initial one, written by a ping
\* that is done.
C2_Witness ==
    \E p \in Slots :
        /\ ping[p].pc = "done"
        /\ ping[p].commits = 1
        /\ store[ping[p].token] # store0[ping[p].token]
        /\ store[ping[p].token].content = ping[p].ip

AfterPushStart == {"push_wait", "commit", "rename", "write", "done"}

\* C3 (as claimed): a ping for a token that is not in the non-empty registry
\* ends Unauthorized and the caller gets HTTP 404.
C3_UnknownTokenGets404 ==
    \A p \in Slots :
        ping[p].auth = "unknown" =>
            /\ ping[p].pc = "done"
            /\ ping[p].outcome = "Unauthorized"
            /\ ping[p].status = 404

\* C4 (as claimed): a ping that arrives less than 10 seconds after another
\* ping for the same token never calls push_notify.
C4_SecondPingNeverDispatches ==
    \A p \in Slots : ping[p].soon_after => ping[p].calls = 0

\* C4 (amended): a ping that finds the token's record and reads the clock no
\* more than 10 seconds after the record's modification time ends Ignored
\* with HTTP 200, without a call of push_notify and without a write, whatever
\* IP it carries.
C4_IgnoredInsideWindow ==
    \A p \in Slots :
        ping[p].in_window = "yes" =>
            /\ ping[p].pc = "done"
            /\ ping[p].outcome = "Ignored"
            /\ ping[p].status = 200
            /\ ping[p].calls = 0
            /\ ping[p].mods = 0

\* C4 witness: a ping committed the first record of the token; a second ping
\* with another IP, arrived less than 10 seconds after it, was ignored.
C4_Witness ==
    \E p, q \in Slots :
        /\ p # q
        /\ ping[q].commits = 1
        /\ ~store0[ping[q].token].exists
        /\ ping[p].token = ping[q].token
        /\ ping[p].soon_after
        /\ ping[p].in_window = "yes"
        /\ ping[p].ip # ping[q].ip
        /\ ping[p].pc = "done"

\* C5: when a ping for a known token that has no record is the only request:
\* it calls push_notify exactly once, for its IP, and once push_notify has
\* succeeded and the response is out there is exactly one commit, the record
\* exists and holds that IP, and the response is 200 "OK".
C5_FirstPing ==
    \A p \in Slots :
        (Arrived = {p} /\ ping[p].saw_record = "no") =>
            /\ ping[p].pc = "push" => ping[p].calls = 0
            /\ ping[p].pc \in AfterPushStart =>
                   ping[p].calls = 1 /\ ping[p].pushed_ip = ping[p].ip
            /\ ping[p].pc = "done" => ping[p].pushed \in {"ok", "fail"}
            /\ (ping[p].pc = "done" /\ ping[p].pushed = "ok") =>
                   /\ ping[p].commits = 1
                   /\ store[ping[p].token].exists
                   /\ store[ping[p].token].content = ping[p].ip
                   /\ ping[p].status = 200
                   /\ ping[p].body = "OK"
                   /\ ping[p].outcome = "OK"

\* C5 witness: the only request so far created the record of its token.
C5_Witness ==
    \E p \in Slots :
        /\ Arrived = {p}
        /\ ping[p].saw_record = "no"
        /\ ping[p].pc = "done"
        /\ ping[p].pushed = "ok"
        /\ ~store0[ping[p].token].exists
        /\ store[ping[p].token].content = ping[p].ip

\* C6: a ping that found a record outside the debounce window and read it:
\* if what it read equals its IP it ends Ignored with no call of push_notify
\* and no write; if it differs it calls push_notify exactly once, writes only
\* after push_notify succeeded, and commits exactly when it succeeded (the
\* record then holds its IP when it is the only request).
C6_DispatchIffChanged ==
    \A p \in Slots :
        /\ ping[p].cmp # "none" =>
               ping[p].saw_record = "yes" /\ ping[p].in_window = "no"
        /\ ping[p].cmp = "equal" =>
               /\ ping[p].pc = "done"
               /\ ping[p].outcome = "Ignored"
               /\ ping[p].status = 200
               /\ ping[p].calls = 0
               /\ ping[p].mods = 0
        /\ ping[p].cmp = "differ" =>
               /\ ping[p].pc \in {"push"} \cup AfterPushStart
               /\ ping[p].pc = "push" => ping[p].calls = 0
               /\ ping[p].pc \in AfterPushStart => ping[p].calls = 1
               /\ ping[p].mods > 0 => ping[p].pushed = "ok"
               /\ ping[p].pc = "done" =>
                      ping[p].commits = (IF ping[p].pushed = "ok" THEN 1 ELSE 0)
               /\ (Arrived = {p} /\ ping[p].pc = "done" /\ ping[p].pushed = "ok") =>
                      store[ping[p].token].content = ping[p].ip

\* C6 witness: one ping read its own IP and was ignored, another read a
\* different IP and committed.
C6_Witness ==
    \E p, q \in Slots :
        /\ ping[p].cmp = "equal"
        /\ ping[q].cmp = "differ"
        /\ ping[q].pc = "done"
        /\ ping[q].commits = 1

\* C7 (as claimed): whatever a ping reads from a record is a complete IP value
\* some commit put there (or the initial one), never an empty or mixed one.
C7_ReaderSeesWholeValue ==
    \A p \in Slots :
        (ping[p].cmp # "none" /\ ping[p].pc # "done") => ping[p].old_ip \in IPs

\* C10: a ping that found the token list file absent or without a token
\* entry ended as an internal fault: HTTP 500, raised by load_tokens, no
\* look at the record, no call of push_notify, no write.
C10_NoTokensIsFault ==
    \A p \in Slots :
        ping[p].src \in {"absent", "empty"} =>
            /\ ping[p].pc = "done"
            /\ ping[p].auth = "raised"
            /\ ping[p].status = 500
            /\ ping[p].saw_record = "none"
            /\ ping[p].calls = 0
            /\ ping[p].net = 0
            /\ ping[p].mods = 0

\* C10 witness: a file of comments only, a token that has a record, HTTP 500.
C10_Witness ==
    \E p \in Slots :
        /\ ping[p].src = "empty"
        /\ ping[p].status = 500
        /\ store[ping[p].token].exists

\* C9 (as claimed): every ping that has arrived ends with a response, also
\* when the provider never answers.
C9_EveryPingTerminates ==
    \A p \in Pings : (ping[p].pc # "idle") ~> (ping[p].pc = "done")

\* The calls of push_notify made so far.
RECURSIVE CallsUpTo(_)
CallsUpTo(i) == IF i = 0 THEN 0 ELSE ping[i].calls + CallsUpTo(i - 1)
Dispatches == CallsUpTo(BurstPings)

\* The calls of push_notify the same requests make when hello runs them to
\* the end one after the other, in the order of their arrival, from record
\* rec on; push_notify fails for a request where it has failed, and succeeds
\* where it has not.
RECURSIVE SerialCalls(_, _)
SerialCalls(i, rec) ==
    IF i > BurstPings \/ ping[i].pc = "idle" THEN 0
    ELSE IF ping[i].auth # "known" THEN SerialCalls(i + 1, rec)
    ELSE LET dispatch ==
                 \/ ~rec.exists
                 \/ /\ NotTooRecent(rec.mtime, Cutoff(ping[i].t_arr))
                    /\ IpChanged(rec.content, ping[i].ip)
             ok == pushKeys /\ ping[i].pushed # "fail"
         IN IF dispatch
            THEN 1 + SerialCalls(i + 1, IF ok THEN Record(ping[i].ip, ping[i].t_arr)
                                        ELSE rec)
            ELSE SerialCalls(i + 1, rec)
SerialDispatches == SerialCalls(1, store0[TokA])

\* C8 (as claimed): overlapping pings for one token make at most one call of
\* push_notify more than the same pings make one after the other.
C8_AtMostOneExtra == Dispatches - SerialDispatches <= 1

\* C8 (amended): k overlapping pings for one token make at most k - 1 calls
\* of push_notify more than the same pings make one after the other (none
\* more for one ping, one more for two).
C8_ExtraBelowPings ==
    LET k == Cardinality(Arrived)
    IN Dispatches - SerialDispatches <= (IF k = 0 THEN 0 ELSE k - 1)

\* C8 witness: two pings that found the same record, both outside the
\* debounce window, both called push_notify, where one after the other only
\* one would have.
C8_Witness ==
    /\ Cardinality(Arrived) = 2
    /\ \A p \in Arrived : ping[p].cmp = "differ" /\ ping[p].pushed = "ok"
    /\ Dispatches = 2
    /\ SerialDispatches = 1

\* C11: a ping for a known token that arrives after a ping for the same token
\* and the same IP has ended Failed in push_notify, while no other ping has
\* modified the token's record, is not debounced and not taken for unchanged:
\* it goes on to call push_notify, once.  No ping calls push_notify more than
\* once, and no call sends more than one request to the provider.
C11_FailedPingIsRetried ==
    /\ \A p \in Slots :
           /\ ping[p].calls <= 1
           /\ ping[p].net <= ping[p].calls
    /\ \A p \in Slots :
           ( /\ ping[p].after_failed
             /\ \A r \in Slots \ {p} :
                    ping[r].token = ping[p].token => ping[r].mods = 0 ) =>
               /\ ping[p].outcome # "Ignored"
               /\ ping[p].in_window # "yes"
               /\ ping[p].cmp # "equal"
               /\ ping[p].pc \in {"isfile", "cutoff", "stat", "read", "push"}
                                  \cup AfterPushStart
               /\ ping[p].pc \in AfterPushStart =>
                      ping[p].calls = 1 /\ ping[p].pushed_ip = ping[p].ip

\* C11 witness: less than 10 seconds after a ping that found a record and
\* failed in push_notify, a ping for the same token and IP has called
\* push_notify again.
C11_Witness ==
    \E p, q \in Slots :
        /\ p # q
        /\ ping[q].pushed = "fail"
        /\ ping[q].net = 1
        /\ ping[q].saw_record = "yes"
        /\ ping[p].after_failed
        /\ ping[p].soon_after
        /\ ping[p].token = ping[q].token
        /\ ping[p].ip = ping[q].ip
        /\ ping[p].calls = 1

\* The offsets of the header at which a hop starts, and the hop that starts
\* at one of them: the hops are the longest runs of characters that are
\* neither commas nor whitespace.
HopStarts(h) ==
    {i \in 1..Len(h) : ~IsSep(h[i]) /\ (i = 1 \/ IsSep(h[i - 1]))}
HopAt(h, i) ==
    LET end == CHOOSE j \in i..Len(h) :
                   /\ \A k \in i..j : ~IsSep(h[k])
                   /\ (j = Len(h) \/ IsSep(h[j + 1]))
    IN SubSeq(h, i, end)

\* C12 (as claimed): with PROXY_COUNT n > 0 and a header of at least n hops,
\* find_client_ip returns the n-th hop from the right, without a warning;
\* with n > 0 and fewer hops (or none) it returns the remote address and
\* warns; with n = 0 it returns the remote address.
C12_ResolvesNthHop ==
    lookup.pc = "return" =>
        LET h == lookup.header
            starts == HopStarts(h)
        IN IF proxyCount > 0 /\ Cardinality(starts) >= proxyCount
           THEN /\ \E i \in starts :
                      /\ Cardinality({j \in starts : j > i}) = proxyCount - 1
                      /\ lookup.client_ip = HopAt(h, i)
                /\ ~lookup.warned
           ELSE /\ lookup.client_ip = lookup.remote_addr
                /\ lookup.warned = (proxyCount > 0)

\* The same for an interpreter whose re.split skips empty matches.
C12_HoldsBefore37 == splitsOnEmpty \/ C12_ResolvesNthHop

\* C13: a ping for a known token whose request carries the ip_address
\* parameter works with that parameter's value and with nothing else: it is
\* the IP compared with the record, the IP of the notification and the IP the
\* commit writes, whatever the remote address, the X-Forwarded-For header,
\* PROXY_COUNT and the interpreter are.
C13_ExplicitIpWins ==
    (ping[1].auth = "known" /\ lookup.ip_address.given) =>
        LET value == lookup.ip_address.value
        IN /\ ping[1].ip = value
           /\ (ping[1].cmp = "differ" /\ ping[1].pc # "done") =>
                  ping[1].old_ip # value
           /\ ping[1].cmp = "equal" => store[TokA].content = value
           /\ ping[1].calls > 0 => ping[1].pushed_ip = value
           /\ ping[1].commits > 0 =>
                  store[TokA].exists /\ store[TokA].content = value

\* C13 witness: behind two proxies, with a header of three hops none of
\* which is the parameter's value, and from another remote address, the
\* parameter's value has been notified and committed.
C13_Witness ==
    /\ proxyCount = 2
    /\ variant = "scrappyddns"
    /\ lookup.ip_address = Param(IP2)
    /\ lookup.remote_addr = IP1
    /\ Cardinality(HopStarts(lookup.header)) = 3
    /\ find_client_ip(lookup.remote_addr, lookup.header, proxyCount,
                      splitsOnEmpty).client_ip # IP2
    /\ ping[1].pushed = "ok"
    /\ ping[1].pushed_ip = IP2
    /\ ping[1].commits = 1
    /\ store[TokA].content = IP2

\* C14 (as claimed): every call of push_notify sends exactly one request to
\* the provider.
C14_ExactlyOneCall ==
    \A p \in Slots : ping[p].calls = 1 => ping[p].net = 1

\* C14 (amended): a call of push_notify sends at most one request to the
\* provider: one when the credentials are configured, none when they are
\* missing (it raises before it connects); from its call to its return or
\* raise it changes no record, not the token list file and not the
\* configuration.
C14_AtMostOneCall ==
    /\ [](\A p \in Slots :
             /\ ping[p].calls <= 1
             /\ ping[p].net <= ping[p].calls
             /\ ping[p].calls = 1 => ping[p].net = (IF pushKeys THEN 1 ELSE 0))
    /\ [][\A p \in Slots :
             (ping'[p].calls # ping[p].calls \/ ping'[p].pushed # ping[p].pushed) =>
                 /\ store' = store
                 /\ tokenFile' = tokenFile
                 /\ <<variant, pushKeys, proxyCount>>' = <<variant, pushKeys, proxyCount>>]_vars

\* C14 witness: a call of push_notify that sent its one request and raised
\* on the answer, the records being what they were at the start.
C14_Witness ==
    \E p \in Slots :
        /\ ping[p].calls = 1
        /\ ping[p].net = 1
        /\ ping[p].pushed = "fail"
        /\ store = store0

\* A ping that ended at the debounce check.
Debounced(p) == ping[p].outcome = "Ignored" /\ ping[p].cmp = "none"

\* C15: a ping is debounced exactly when it found a record and the record's
\* modification time is no more than 10 seconds before the time of its
\* check; a debounced ping ends Ignored with HTTP 200, without a call of
\* push_notify, without reading the record's content and without a write;
\* and a ping that checks a record no more than 10 seconds after a commit
\* for its token is debounced.
C15_DebouncedIffRecentRecord ==
    \A p \in Slots :
        /\ Debounced(p) <=> (ping[p].saw_record = "yes" /\ ping[p].in_window = "yes")
        /\ Debounced(p) =>
               /\ ping[p].pc = "done"
               /\ ping[p].status = 200
               /\ ping[p].calls = 0
               /\ ping[p].mods = 0
        /\ ping[p].in_window = "no" =>
               ping[p].pc = "read" \/ ping[p].cmp # "none"
        /\ ping[p].saw_record = "no" =>
               ping[p].pc \in {"push"} \cup AfterPushStart /\ ping[p].in_window = "none"
        /\ ping[p].after_commit = "yes" => Debounced(p)

\* C15 witness: exactly 10 seconds after a commit for the token a ping with
\* another IP was debounced.
C15_Witness ==
    \E p, q \in Slots :
        /\ p # q
        /\ ping[q].commits = 1
        /\ ping[p].token = ping[q].token
        /\ ping[p].ip # ping[q].ip
        /\ ping[p].after_commit = "yes"
        /\ ping[p].t_arr = ping[q].t_commit + DebounceSecs
        /\ Debounced(p)

\* C16 (as claimed): push_notify returns only on HTTP 200 with a well-formed
\* success body, and every other way it ends is a ScrappyException.
C16_FailureIsClassified ==
    /\ \A resp \in Responses \cup {TransportError} :
           PushResult(variant, resp) = "ok" =>
               resp.status = 200 /\ resp.body = "success"
    /\ \A p \in Slots :
           /\ ping[p].pushed = "ok" => ping[p].exc = "none"
           /\ ping[p].pushed = "fail" => ping[p].exc = "ScrappyException"

\* The same for src/scrappyddns.py alone, whose bare except classifies
\* everything.
C16_HoldsForPushover == variant = "scrappyddns" => C16_FailureIsClassified

\* Whether the token list file lists the token: some line that does not
\* start with '#' and has a colon holds the token before its first colon.
Listed(file, token) ==
    /\ file.exists
    /\ \E i \in 1..Len(file.lines) :
           /\ IsEntryLine(file.lines[i])
           /\ LET t == Strip(file.lines[i])
                  c == CHOOSE k \in 1..Len(t) :
                           t[k] = ":" /\ \A j \in 1..(k - 1) : t[j] # ":"
              IN SubSeq(t, 1, c - 1) = token

\* C17: the authentication outcome of a ping is a function of its token and
\* of the token list file as it is when the ping arrives, whatever earlier
\* pings found: a fault when the file is missing or lists nothing, known when
\* the file lists the token, unknown when it does not.
C17_AuthFollowsFile ==
    [][\A p \in Slots :
          (ping[p].pc = "idle" /\ ping'[p].pc # "idle") =>
              ping'[p].auth =
                  (IF FileKind(tokenFile) # "tokens" THEN "raised"
                   ELSE IF Listed(tokenFile, ping'[p].token) THEN "known"
                   ELSE "unknown")]_vars

\* C17 witness: a token was unknown to one ping and, added to the file, known
\* to the next ping at the same instant.
C17_Witness ==
    \E p, q \in Slots :
        /\ ping[p].token = ping[q].token
        /\ ping[p].pc = "done"
        /\ ping[p].auth = "unknown"
        /\ ping[q].auth = "known"
        /\ ping[q].t_arr = ping[p].t_arr
        /\ q = p + 1

\* The pings for token t whose notification was delivered.
Notified(t) == {p \in Slots : ping[p].token = t /\ ping[p].pushed = "ok"}

\* C18 (as claimed): whenever no ping for a token is in flight and a
\* notification has been delivered for it, its record holds the IP of the
\* notification delivered last.
C18_RecordIsLastNotified ==
    \A t \in UrlTokens :
        ( /\ \A p \in Slots : ping[p].token = t => ping[p].pc = "done"
          /\ Notified(t) # {} ) =>
            \E p \in Notified(t) :
                /\ \A q \in Notified(t) : ping[q].push_seq <= ping[p].push_seq
                /\ store[t].exists
                /\ store[t].content = ping[p].pushed_ip

\* C19: a ping that ended Ignored or Unauthorized has called push_notify
\* never, sent nothing to the provider and modified no record; no step of
\* such a ping changes any record; and every step that changes a record's
\* content or modification time is a step of the commit of a ping whose
\* notification was delivered, so that ignored pings do not move the
\* debounce clock.
C19_IgnoredPingsLeaveNoTrace ==
    /\ [](\A p \in Slots :
             ping[p].outcome \in {"Ignored", "Unauthorized"} =>
                 /\ ping[p].calls = 0
                 /\ ping[p].net = 0
                 /\ ping[p].mods = 0
                 /\ ping[p].commits = 0)
    /\ [][\A p \in Slots :
             (ping'[p] # ping[p] /\ ping'[p].pushed # "ok") => store' = store]_vars
    /\ [][store' # store =>
             \E p \in Slots :
                 /\ ping[p].pc \in CommitPcs
                 /\ ping'[p].pc # ping[p].pc
                 /\ ping'[p].mods = ping[p].mods + 1
                 /\ store'[ping[p].token].mtime = now]_vars

\* C19 witness: a ping was debounced; the next ping for the token, less than
\* 10 seconds after it but more than 10 seconds after the record's
\* modification time, was not debounced, and the record is as it was.
C19_Witness ==
    \E p, q \in Slots :
        /\ p # q
        /\ ping[p].token = ping[q].token
        /\ Debounced(p)
        /\ ping[q].t_arr > ping[p].t_arr
        /\ ping[q].t_arr - ping[p].t_arr < DebounceSecs
        /\ ping[q].in_window = "no"
        /\ ping[q].outcome = "Ignored"
        /\ store = store0

\* C20: for a client that keeps pinging with IP2 more than 10 seconds apart
\* while the provider at some time accepts: at some time the notification for
\* IP2 is delivered, and from some time on the record of the token holds IP2
\* and no ping calls push_notify any more.
C20_Converges ==
    /\ <>(ping[1].pushed = "ok" /\ ping[1].pushed_ip = IP2)
    /\ <>[]( /\ store[TokA].exists
             /\ store[TokA].content = IP2
             /\ ping[1].calls = 0 )

\* C20 witness: the ping before failed in push_notify, the present one had
\* its notification for IP2 delivered and committed IP2 over another IP.
C20_Witness ==
    /\ ping[2].pushed = "fail"
    /\ ping[1].after_failed
    /\ ping[1].pushed = "ok"
    /\ ping[1].commits = 1
    /\ store0[TokA].exists
    /\ store0[TokA].content # IP2
    /\ store[TokA].content = IP2

====
